---- MODULE Spec2Model ----
(***************************************************************************)
(* Model of pool<T> (src/main.cpp): a growable, index-stable object pool.  *)
(*                                                                         *)
(* A pointer is modelled as [base, off]: the address of the allocation it  *)
(* points into (0 for a null block pointer) and the element offset inside  *)
(* it.  Element::obj is the first member of Element, so &(place->obj) has  *)
(* the address of the element itself and is the null pointer exactly when  *)
(* base = 0 and off = 0.                                                   *)
(*                                                                         *)
(* Placement-new or a destructor call through a pointer into a released    *)
(* block is undefined behaviour; the model takes both outcomes a build can *)
(* produce: the process dies (crashed), or the call touches no memory and  *)
(* the handler carries on.                                                 *)
(***************************************************************************)
EXTENDS Integers, Sequences, FiniteSets, TLC

\* ---- bounds -------------------------------------------------------------
MaxInitCap == 3      \* initial_capacity is drawn from 1..MaxInitCap
MaxCount == 4        \* the fresh-index path is taken only while count < MaxCount

\* constructor arguments: two values tell a fresh object from a stale one
Values == {1, 2}

VARIABLES
    blocks,          \* std::vector<BlockInfo>
    object_ptrs,     \* std::vector<void*>; index i of the code is position i+1
    free_list,       \* std::vector<size_t>
    block_size,      \* growth-size tracker
    count,
    total_capacity,
    crashed,         \* the process died inside an undefined operation
    last,            \* history: the call that produced this state
    issued,          \* history: indices some successful push_back has produced
    held,            \* history: indices produced by a push_back and not erased since
    phase,           \* history: shape of the call sequence so far
    memory,          \* contents of block memory: pointer -> value of the T constructed there
    given,           \* history: index -> value given to the insert that made it alive
    destroyed,       \* ~pool() has run
    freed,           \* history: per block, how often operator delete[] released its memory
    misdestroyed,    \* history: indices whose destructor ran with no constructed object
    constructed      \* history: indices that hold a constructed, not yet destructed object

poolvars == <<blocks, object_ptrs, free_list, block_size, count, total_capacity>>
vars == <<blocks, object_ptrs, free_list, block_size, count, total_capacity,
          crashed, last, issued, held, phase,
          memory, given, destroyed, freed, misdestroyed, constructed>>
aux == <<memory, given, destroyed, freed, misdestroyed, constructed>>

\* ---- pointers and blocks ------------------------------------------------
NULL == [base |-> 0, off |-> 0]

\* reinterpret_cast<Element*>(static_cast<char*>(blk.ptr) + offset * sizeof(Element)), then &(place->obj)
ElementPlace(blk, offset) == [base |-> blk.ptr, off |-> offset]

\* struct BlockInfo { void* ptr; size_t capacity; size_t refcount; }
BlockInfo(ptr, capacity, refcount) ==
    [ptr |-> ptr, capacity |-> capacity, refcount |-> refcount]

\* add_block: operator new[] returns a fresh non-null address (here: the
\* position of the block, which is never reused), refcount starts at 0
add_block(blks, block_capacity) ==
    Append(blks, BlockInfo(Len(blks) + 1, block_capacity, 0))

RECURSIVE ScanBlocks(_, _, _)
ScanBlocks(blks, idx, i) ==
    IF i > Len(blks)
    THEN [found |-> FALSE, block_idx |-> 0, offset |-> 0]
    ELSE IF idx < blks[i].capacity
         THEN [found |-> TRUE, block_idx |-> i, offset |-> idx]
         ELSE ScanBlocks(blks, idx - blks[i].capacity, i + 1)

\* get_block_and_offset: found = FALSE is the "Internal pool index error" throw
get_block_and_offset(blks, global_idx) == ScanBlocks(blks, global_idx, 1)

RECURSIVE BlockBase(_, _)
\* for (i = 0; i < block_idx; ++i) base += blocks[i].capacity;
BlockBase(blks, block_idx) ==
    IF block_idx <= 1 THEN 0
    ELSE BlockBase(blks, block_idx - 1) + blks[block_idx - 1].capacity

\* ---- observers ----------------------------------------------------------
is_alive(idx) == idx < Len(object_ptrs) /\ object_ptrs[idx + 1] # NULL
size == count
capacity == total_capacity

\* idx >= object_ptrs.size() || !object_ptrs[idx]
OutOfRange(idx) == idx >= Len(object_ptrs) \/ object_ptrs[idx + 1] = NULL

\* ---- construction -------------------------------------------------------
Init ==
    \E initial_capacity \in 1..MaxInitCap :
        /\ blocks = add_block(<<>>, initial_capacity)
        /\ object_ptrs = <<>>
        /\ free_list = <<>>
        /\ block_size = initial_capacity
        /\ count = 0
        /\ total_capacity = initial_capacity
        /\ crashed = FALSE
        /\ last = [op |-> "none", idx |-> 0, res |-> "none", val |-> 0]
        /\ issued = {}
        /\ held = {}
        /\ phase = "fresh"
        /\ memory = <<>>
        /\ given = <<>>
        /\ destroyed = FALSE
        /\ freed = <<0>>
        /\ misdestroyed = {}
        /\ constructed = {}

\* ---- block memory ---------------------------------------------------------
Without(f, x) == [y \in (DOMAIN f) \ {x} |-> f[y]]

\* new (&(element_place->obj)) T(args): the object lives at pl when the block
\* is allocated; through a released block's pointer nothing is stored
Construct(mem, pl, v) == IF pl.base # 0 THEN (pl :> v) @@ mem ELSE mem

\* reinterpret_cast<T*>(ptr)->~T()
Destruct(mem, ptr) == Without(mem, ptr)

\* ::operator delete[](ptr, ...): everything inside the allocation is gone
FreeMemory(mem, ptr) ==
    IF ptr = 0 THEN mem
    ELSE [q \in {x \in DOMAIN mem : x.base # ptr} |-> mem[q]]

\* what a read through the reference returned by operator[] can see: the
\* object constructed there, or anything when the pointer dangles
ReadOutcomes(mem, ptr) == IF ptr \in DOMAIN mem THEN {mem[ptr]} ELSE Values

\* the delete counters follow the blocks vector
PadFreed(fr, blks) == [b \in 1..Len(blks) |-> IF b <= Len(fr) THEN fr[b] ELSE 0]

\* one more operator delete[] on block b when its pointer is not null
CountDelete(fr, blks, b) ==
    IF blks[b].ptr # 0 THEN [fr EXCEPT ![b] = IF fr[b] >= 2 THEN 2 ELSE fr[b] + 1] ELSE fr

\* ---- history bookkeeping -------------------------------------------------
AfterInsert(p) == IF p \in {"fresh", "inserting"} THEN "inserting" ELSE "other"
AfterErase(p) == IF p \in {"inserting", "removing"} THEN "removing" ELSE "other"

\* the outcomes of touching memory through a pointer into block blk
UBOutcomes(blk) == IF blk.ptr = 0 THEN {"crash", "continue"} ELSE {"continue"}

\* ---- growth -------------------------------------------------------------
\* a growth that accounts the previous increment instead of the new one
grow_StaleIncrement(blks, bs, cap) ==
    LET new_block_size == bs * 2
    IN  [blocks |-> add_block(blks, new_block_size),
         total_capacity |-> cap + bs,
         block_size |-> new_block_size]

\* a growth that forgets to advance the growth-size tracker
grow_StaleTracker(blks, bs, cap) ==
    LET new_block_size == bs * 2
    IN  [blocks |-> add_block(blks, new_block_size),
         total_capacity |-> cap + new_block_size,
         block_size |-> bs]

\* grow(): new_block_size = block_size * 2; add_block; total_capacity += ...; block_size = ...
grow(blks, bs, cap) ==
    LET new_block_size == bs * 2
    IN  [blocks |-> add_block(blks, new_block_size),
         total_capacity |-> cap + new_block_size,
         block_size |-> new_block_size]

\* a failed growth that has already advanced the growth-size tracker
grow_failed_Partial(blks, bs, cap) ==
    [blocks |-> blks, total_capacity |-> cap, block_size |-> bs * 2]

\* grow() when operator new[] in add_block throws std::bad_alloc: the throw
\* leaves add_block before blocks.push_back and grow before its two
\* assignments
grow_failed(blks, bs, cap) ==
    [blocks |-> blks, total_capacity |-> cap, block_size |-> bs]

\* an insert that forgets the live-count
IncRef_Skip(blks, block_idx) == blks

\* ++blocks[block_idx].refcount
IncRef(blks, block_idx) ==
    [blks EXCEPT ![block_idx].refcount = blks[block_idx].refcount + 1]

\* an erase that forgets the live-count
DecRef_Skip(blks, block_idx) == blks

\* --blocks[block_idx].refcount
DecRef(blks, block_idx) ==
    [blks EXCEPT ![block_idx].refcount = blks[block_idx].refcount - 1]

\* ---- push_back, free-list path (free_list non-empty) ---------------------
PushBackReuse(v, ctor_throws) ==
    /\ ~crashed
    /\ ~destroyed
    /\ free_list # <<>>
    /\ LET insert_idx == free_list[Len(free_list)]
           popped == SubSeq(free_list, 1, Len(free_list) - 1)
           bo == get_block_and_offset(blocks, insert_idx)
       IN  IF ~bo.found
           THEN \* get_block_and_offset throws after the pop
                /\ free_list' = popped
                /\ last' = [op |-> "push_back", idx |-> insert_idx, res |-> "internal_error", val |-> 0]
                /\ phase' = "other"
                /\ UNCHANGED <<blocks, object_ptrs, block_size, count, total_capacity,
                               crashed, issued, held, aux>>
           ELSE \E ub \in UBOutcomes(blocks[bo.block_idx]) :
                IF ub = "crash"
                THEN /\ crashed' = TRUE
                     /\ last' = [op |-> "push_back", idx |-> insert_idx, res |-> "crash", val |-> 0]
                     /\ phase' = "other"
                     /\ UNCHANGED <<poolvars, issued, held, aux>>
                ELSE IF ctor_throws
                THEN \* T's constructor throws: the pop is not undone
                     /\ free_list' = popped
                     /\ last' = [op |-> "push_back", idx |-> insert_idx, res |-> "ctor_throw", val |-> 0]
                     /\ phase' = "other"
                     /\ UNCHANGED <<blocks, object_ptrs, block_size, count, total_capacity,
                                    crashed, issued, held, aux>>
                ELSE /\ free_list' = popped
                     /\ object_ptrs' = [object_ptrs EXCEPT ![insert_idx + 1] =
                                            ElementPlace(blocks[bo.block_idx], bo.offset)]
                     /\ blocks' = IncRef(blocks, bo.block_idx)
                     /\ last' = [op |-> "push_back", idx |-> insert_idx, res |-> "ok", val |-> 0]
                     /\ issued' = issued \cup {insert_idx}
                     /\ held' = held \cup {insert_idx}
                     /\ phase' = AfterInsert(phase)
                     /\ memory' = Construct(memory, ElementPlace(blocks[bo.block_idx], bo.offset), v)
                     /\ given' = (insert_idx :> v) @@ given
                     /\ constructed' = constructed \cup {insert_idx}
                     /\ UNCHANGED <<block_size, count, total_capacity, crashed, destroyed, freed, misdestroyed>>

\* ---- push_back, fresh-index path (free_list empty) -----------------------
PushBackFresh(v, ctor_throws, alloc_fails) ==
    /\ ~crashed
    /\ ~destroyed
    /\ free_list = <<>>
    /\ count < MaxCount
    /\ IF count = total_capacity /\ alloc_fails
       THEN \* grow() throws std::bad_alloc out of push_back
            LET f == grow_failed(blocks, block_size, total_capacity)
            IN  /\ blocks' = f.blocks
                /\ total_capacity' = f.total_capacity
                /\ block_size' = f.block_size
                /\ last' = [op |-> "push_back", idx |-> count, res |-> "bad_alloc", val |-> 0]
                /\ phase' = "other"
                /\ freed' = PadFreed(freed, f.blocks)
                /\ UNCHANGED <<object_ptrs, free_list, count, crashed, issued, held, memory, given, destroyed, misdestroyed,
                               constructed>>
       ELSE
       LET g == IF count = total_capacity
                THEN grow(blocks, block_size, total_capacity)
                ELSE [blocks |-> blocks, total_capacity |-> total_capacity,
                      block_size |-> block_size]
           bo == get_block_and_offset(g.blocks, count)
       IN  IF ~bo.found
           THEN /\ blocks' = g.blocks
                /\ total_capacity' = g.total_capacity
                /\ block_size' = g.block_size
                /\ last' = [op |-> "push_back", idx |-> count, res |-> "internal_error", val |-> 0]
                /\ phase' = "other"
                /\ freed' = PadFreed(freed, g.blocks)
                /\ UNCHANGED <<object_ptrs, free_list, count, crashed, issued, held, memory, given, destroyed, misdestroyed,
                               constructed>>
           ELSE \E ub \in UBOutcomes(g.blocks[bo.block_idx]) :
                IF ub = "crash"
                THEN /\ crashed' = TRUE
                     /\ last' = [op |-> "push_back", idx |-> count, res |-> "crash", val |-> 0]
                     /\ phase' = "other"
                     /\ UNCHANGED <<poolvars, issued, held, aux>>
                ELSE IF ctor_throws
                THEN \* T's constructor throws: a block added by grow() stays
                     /\ blocks' = g.blocks
                     /\ total_capacity' = g.total_capacity
                     /\ block_size' = g.block_size
                     /\ last' = [op |-> "push_back", idx |-> count, res |-> "ctor_throw", val |-> 0]
                     /\ phase' = "other"
                     /\ freed' = PadFreed(freed, g.blocks)
                     /\ UNCHANGED <<object_ptrs, free_list, count, crashed, issued, held, memory, given, destroyed, misdestroyed,
                               constructed>>
                ELSE /\ object_ptrs' = Append(object_ptrs,
                                              ElementPlace(g.blocks[bo.block_idx], bo.offset))
                     /\ blocks' = IncRef(g.blocks, bo.block_idx)
                     /\ count' = count + 1
                     /\ total_capacity' = g.total_capacity
                     /\ block_size' = g.block_size
                     /\ last' = [op |-> "push_back", idx |-> count, res |-> "ok", val |-> 0]
                     /\ issued' = issued \cup {count}
                     /\ held' = held \cup {count}
                     /\ phase' = AfterInsert(phase)
                     /\ memory' = Construct(memory, ElementPlace(g.blocks[bo.block_idx], bo.offset), v)
                     /\ given' = (count :> v) @@ given
                     /\ constructed' = constructed \cup {count}
                     /\ freed' = PadFreed(freed, g.blocks)
                     /\ UNCHANGED <<free_list, crashed, destroyed, misdestroyed>>

push_back == \E v \in Values : \E ctor_throws \in BOOLEAN :
    \/ PushBackReuse(v, ctor_throws)
    \/ \E alloc_fails \in BOOLEAN : PushBackFresh(v, ctor_throws, alloc_fails)

\* ---- operator[] ----------------------------------------------------------
Lookup(idx) ==
    /\ ~crashed
    /\ ~destroyed
    /\ IF OutOfRange(idx)
       THEN last' = [op |-> "lookup", idx |-> idx, res |-> "out_of_range", val |-> 0]
       ELSE \E seen \in ReadOutcomes(memory, object_ptrs[idx + 1]) :
                last' = [op |-> "lookup", idx |-> idx, res |-> "ok", val |-> seen]
    /\ UNCHANGED <<poolvars, crashed, issued, held, phase, aux>>

\* ---- erase ---------------------------------------------------------------
\* a retirement test that fires one object too early
BlockEmpty_OffByOne(refcount) == refcount <= 1

\* if (blocks[block_idx].refcount == 0)
BlockEmpty(refcount) == refcount = 0

\* the retirement branch of erase: clear the block's slots, purge the free
\* list, release the memory
InRange(i, base, cap) == i >= base /\ i < base + cap

RetireSlots(ptrs, base, cap) ==
    [p \in 1..Len(ptrs) |-> IF InRange(p - 1, base, cap) THEN NULL ELSE ptrs[p]]

PurgeFreeList(fl, base, cap) ==
    LET Keep(i) == ~InRange(i, base, cap) IN SelectSeq(fl, Keep)

\* a release that leaves the stale pointer in the block table
ReleaseBlock_KeepPtr(blks, block_idx) == blks

ReleaseBlock(blks, block_idx) == [blks EXCEPT ![block_idx].ptr = 0]

erase(idx) ==
    /\ ~crashed
    /\ ~destroyed
    /\ IF OutOfRange(idx)
       THEN /\ last' = [op |-> "erase", idx |-> idx, res |-> "out_of_range", val |-> 0]
            /\ UNCHANGED <<poolvars, crashed, issued, held, phase, aux>>
       ELSE LET bo == get_block_and_offset(blocks, idx) IN
            IF ~bo.found
            THEN /\ last' = [op |-> "erase", idx |-> idx, res |-> "internal_error", val |-> 0]
                 /\ phase' = "other"
                 /\ UNCHANGED <<poolvars, crashed, issued, held, aux>>
            ELSE \E ub \in UBOutcomes(blocks[bo.block_idx]) :
                 IF ub = "crash"
                 THEN /\ crashed' = TRUE
                      /\ last' = [op |-> "erase", idx |-> idx, res |-> "crash", val |-> 0]
                      /\ phase' = "other"
                      /\ UNCHANGED <<poolvars, issued, held, aux>>
                 ELSE LET ptrs1 == [object_ptrs EXCEPT ![idx + 1] = NULL]
                          fl1 == Append(free_list, idx)
                          blks1 == DecRef(blocks, bo.block_idx)
                          base == BlockBase(blks1, bo.block_idx)
                          cap == blks1[bo.block_idx].capacity
                          retire == BlockEmpty(blks1[bo.block_idx].refcount)
                      IN  /\ object_ptrs' = IF retire THEN RetireSlots(ptrs1, base, cap)
                                                      ELSE ptrs1
                          /\ free_list' = IF retire THEN PurgeFreeList(fl1, base, cap)
                                                    ELSE fl1
                          /\ blocks' = IF retire THEN ReleaseBlock(blks1, bo.block_idx)
                                                 ELSE blks1
                          /\ last' = [op |-> "erase", idx |-> idx, res |-> "ok", val |-> 0]
                          /\ held' = held \ {idx}
                          /\ phase' = AfterErase(phase)
                          /\ memory' = IF retire
                                        THEN FreeMemory(Destruct(memory, object_ptrs[idx + 1]),
                                                        blks1[bo.block_idx].ptr)
                                        ELSE Destruct(memory, object_ptrs[idx + 1])
                          /\ given' = Without(given, idx)
                          /\ freed' = IF retire THEN CountDelete(freed, blks1, bo.block_idx) ELSE freed
                          /\ constructed' = constructed \ {idx}
                          /\ misdestroyed' = IF idx \in constructed THEN misdestroyed
                                                               ELSE misdestroyed \cup {idx}
                          /\ UNCHANGED <<block_size, count, total_capacity, crashed, issued, destroyed>>

\* ---- ~pool ---------------------------------------------------------------
RECURSIVE DeleteAll(_, _, _)
\* for (auto& block : blocks) ::operator delete[](block.ptr, ...);
DeleteAll(fr, blks, n) ==
    IF n = 0 THEN fr ELSE CountDelete(DeleteAll(fr, blks, n - 1), blks, n)

\* the destructor calls ~T() through every non-null object_ptrs entry; an
\* entry that points into a released block makes that call undefined
DestroyOutcomes ==
    IF \E p \in 1..Len(object_ptrs) : object_ptrs[p] # NULL /\ object_ptrs[p].base = 0
    THEN {"crash", "continue"} ELSE {"continue"}

Destroy ==
    /\ ~crashed
    /\ ~destroyed
    /\ LET live == {i \in 0..(Len(object_ptrs) - 1) : object_ptrs[i + 1] # NULL}
       IN  \E ub \in DestroyOutcomes :
           IF ub = "crash"
           THEN /\ crashed' = TRUE
                /\ last' = [op |-> "destroy", idx |-> Cardinality(live), res |-> "crash", val |-> 0]
                /\ phase' = "other"
                /\ UNCHANGED <<poolvars, issued, held, aux>>
           ELSE \* the members are left as the body of the destructor leaves them
                /\ destroyed' = TRUE
                /\ constructed' = constructed \ live
                /\ misdestroyed' = misdestroyed \cup (live \ constructed)
                /\ freed' = DeleteAll(freed, blocks, Len(blocks))
                /\ memory' = <<>>
                /\ last' = [op |-> "destroy", idx |-> Cardinality(live), res |-> "ok", val |-> 0]
                /\ UNCHANGED <<poolvars, crashed, issued, held, phase, given>>

\* ---- specification -------------------------------------------------------
Indices == 0..MaxCount

Next ==
    \/ push_back
    \/ \E idx \in Indices : Lookup(idx)
    \/ \E idx \in Indices : erase(idx)
    \/ Destroy

Spec == Init /\ [][Next]_vars

TypeOK ==
    /\ count \in 0..MaxCount
    /\ Len(object_ptrs) = count
    /\ crashed \in BOOLEAN

\* ---- vocabulary of the properties ----------------------------------------
AliveSet == {i \in Indices : is_alive(i)}

\* the block whose index range contains i has had its memory released
Retired(i) ==
    LET bo == get_block_and_offset(blocks, i)
    IN  bo.found /\ blocks[bo.block_idx].ptr = 0

\* position in blocks of the block whose index range contains i (0 if none)
BlockOf(i) == get_block_and_offset(blocks, i).block_idx

RECURSIVE SumAllocated(_, _)
SumAllocated(blks, n) ==
    IF n = 0 THEN 0
    ELSE SumAllocated(blks, n - 1) + (IF blks[n].ptr # 0 THEN blks[n].capacity ELSE 0)

InsertDone == last.op = "push_back" /\ last.res = "ok"
EraseDone == last.op = "erase" /\ last.res = "ok"

\* C1: is_alive(i) holds exactly when i was issued by an insert not since
\* followed by a successful erase(i) and the block containing i is not retired.
C1_AliveIffHeldAndNotRetired ==
    \A i \in Indices : is_alive(i) <=> (i \in held /\ ~Retired(i))

\* C2: size() equals the number of indices for which is_alive holds.
C2_SizeIsAliveCount == size = Cardinality(AliveSet)

\* C3: capacity() equals the sum of the capacities of the blocks that are
\* allocated and not yet released.
C3_CapacityIsAllocatedSum == capacity = SumAllocated(blocks, Len(blocks))

\* C4: across one operation capacity() never decreases, except that an erase
\* which brings a block's live-count to zero and retires it decreases
\* capacity() by exactly that block's capacity.
C4_Step ==
    LET b == BlockOf(last'.idx)
        retires == /\ last'.op = "erase" /\ last'.res = "ok"
                   /\ blocks[b].refcount = 1 /\ blocks'[b].ptr = 0
    IN  IF retires THEN capacity' = capacity - blocks[b].capacity
                   ELSE capacity' >= capacity
C4_CapacityStepsDownOnRetire == [][C4_Step]_vars

\* C5: operator[] and erase on an index that was never issued, whose object
\* was already removed, or that lies in a retired block fail with
\* out_of_range, and the failed call leaves the whole pool state unchanged.
InvalidIndex(i) == i \notin issued \/ i \notin held \/ Retired(i)
C5_Step ==
    (last'.op \in {"lookup", "erase"} /\ InvalidIndex(last'.idx))
        => (last'.res = "out_of_range" /\ UNCHANGED poolvars)
C5_InvalidIndexFailsCleanly == [][C5_Step]_vars

\* C6: an insert never places its object at an index that lies in the index
\* range of a retired block.
C6_InsertAvoidsRetiredBlocks == InsertDone => ~Retired(last.idx)

\* C7: every live index maps to one location (block, offset) inside one
\* block whose memory is allocated, and distinct live indices map to
\* distinct locations.
C7_LiveSlotsDistinctAndAllocated ==
    /\ \A i \in AliveSet :
           LET bo == get_block_and_offset(blocks, i)
           IN  /\ bo.found
               /\ blocks[bo.block_idx].ptr # 0
               /\ object_ptrs[i + 1] = ElementPlace(blocks[bo.block_idx], bo.offset)
    /\ \A i, j \in AliveSet : i # j => object_ptrs[i + 1] # object_ptrs[j + 1]

\* C8: index stability.  An insert or a successful erase(i) leaves every
\* other index j that was alive before it alive, at the same storage location
\* and in a block whose pointer is unchanged; and the index an insert hands
\* out was not alive before the insert.
C8_Step ==
    /\ \A j \in AliveSet :
           (last'.op \in {"push_back", "erase"} /\ ~(last'.op = "erase" /\ last'.res = "ok" /\ last'.idx = j))
               => /\ j < Len(object_ptrs')
                  /\ object_ptrs'[j + 1] = object_ptrs[j + 1]
                  /\ object_ptrs'[j + 1] # NULL
                  /\ blocks'[BlockOf(j)].ptr = blocks[BlockOf(j)].ptr
    /\ (last'.op = "push_back" /\ last'.res = "ok") => last'.idx \notin AliveSet
C8_IndexStability == [][C8_Step]_vars

\* a successful erase has just retired a block while other indices are alive
C8_Witness ==
    /\ EraseDone
    /\ blocks[BlockOf(last.idx)].ptr = 0
    /\ Cardinality(AliveSet) >= 2
    /\ \E j \in AliveSet : j > last.idx

\* C9: inserting N objects into a fresh pool and then removing all of them
\* leaves size() = 0 and capacity() = 0.
C9_DrainedPoolIsEmpty ==
    (phase = "removing" /\ held = {}) => (size = 0 /\ capacity = 0)

\* C10: an insert whose constructor throws leaves size(), the issued
\* indices, the live indices, the free list and every block's live-count as
\* they were before the insert.
C10_Step ==
    (last'.op = "push_back" /\ last'.res = "ctor_throw")
        => /\ size' = size
           /\ Len(object_ptrs') = Len(object_ptrs)
           /\ AliveSet' = AliveSet
           /\ free_list' = free_list
           /\ \A b \in 1..Len(blocks) : blocks'[b].refcount = blocks[b].refcount
C10_CtorThrowLeavesAccounting == [][C10_Step]_vars

\* C11: when the allocation of a new block fails during growth, the insert
\* fails and the pool is as before: no block appended, capacity(), size(),
\* the growth-size tracker, the slot map and the free list unchanged, and no
\* index issued.
C11_Step ==
    (last'.op = "push_back" /\ last'.res = "bad_alloc")
        => /\ blocks' = blocks
           /\ capacity' = capacity
           /\ size' = size
           /\ block_size' = block_size
           /\ object_ptrs' = object_ptrs
           /\ free_list' = free_list
           /\ issued' = issued
C11_AllocFailureLeavesPool == [][C11_Step]_vars

\* a growth beyond the second block has just failed
C11_Witness ==
    /\ last.op = "push_back" /\ last.res = "bad_alloc"
    /\ Len(blocks) >= 2
    /\ count = total_capacity

RECURSIVE Pow2(_)
Pow2(k) == IF k = 0 THEN 1 ELSE 2 * Pow2(k - 1)

\* C12: growth is geometric doubling.  The first block has the initial
\* capacity c and the k-th growth appends exactly one block of capacity
\* c * 2^k, adding that amount to capacity(); an insert grows only when the
\* free list is empty and every slot of the current capacity has been
\* issued, and one operation allocates at most one block.
C12_Shape ==
    \A k \in 1..Len(blocks) : blocks[k].capacity = blocks[1].capacity * Pow2(k - 1)
C12_Step ==
    /\ Len(blocks') \in {Len(blocks), Len(blocks) + 1}
    /\ Len(blocks') = Len(blocks) + 1
        => /\ last'.op = "push_back"
           /\ free_list = <<>>
           /\ \A i \in 0..(capacity - 1) : i \in issued
           /\ SubSeq(blocks', 1, Len(blocks)) = blocks
           /\ blocks'[Len(blocks')].capacity = blocks[1].capacity * Pow2(Len(blocks))
           /\ block_size' = blocks'[Len(blocks')].capacity
           /\ capacity' = capacity + blocks'[Len(blocks')].capacity
C12_GeometricDoubling == [][C12_Shape /\ C12_Shape' /\ C12_Step]_vars

\* the second growth has just happened
C12_Witness == InsertDone /\ Len(blocks) = 3 /\ blocks[3].refcount = 1 /\ free_list = <<>>

\* C13: freed slots are reused before growing.  An insert that returns while
\* the free list was non-empty took the index at the back of the free list,
\* made it alive again and incremented its block's live-count, without
\* allocating a block, changing capacity() or issuing a new index.
C13_Step ==
    (last'.op = "push_back" /\ last'.res = "ok" /\ free_list # <<>>)
        => LET idx == free_list[Len(free_list)]
               b == BlockOf(idx)
           IN  /\ last'.idx = idx
               /\ idx \in issued /\ idx \notin AliveSet
               /\ idx \in AliveSet'
               /\ free_list' = SubSeq(free_list, 1, Len(free_list) - 1)
               /\ blocks'[b].refcount = blocks[b].refcount + 1
               /\ Len(blocks') = Len(blocks)
               /\ \A k \in 1..Len(blocks) : blocks'[k].ptr = blocks[k].ptr
               /\ capacity' = capacity
               /\ Len(object_ptrs') = Len(object_ptrs)
C13_FreeListReusedFirst == [][C13_Step]_vars

\* an insert has just reused a freed index below the newest one
C13_Witness == InsertDone /\ last.idx < Len(object_ptrs) - 1 /\ Len(free_list) >= 1

\* index range of the block at position b
BlockRange(b) ==
    {i \in Indices : InRange(i, BlockBase(blocks, b), blocks[b].capacity)}

\* C15: right after a successful erase that brought the owning block's
\* live-count to zero, the block's memory is released and no index of its
\* range is alive or in the free list; when the live-count stayed above zero
\* the block is not released and the erased index is in the free list.
C15_AfterErase ==
    EraseDone =>
        LET b == BlockOf(last.idx)
        IN  IF blocks[b].refcount = 0
            THEN /\ blocks[b].ptr = 0
                 /\ \A i \in BlockRange(b) :
                        /\ ~is_alive(i)
                        /\ \A p \in 1..Len(free_list) : free_list[p] # i
            ELSE /\ blocks[b].ptr # 0
                 /\ \E p \in 1..Len(free_list) : free_list[p] = last.idx

\* C16: every index in the free list was issued before, is not alive, lies
\* in the range of a block that has not been retired, and occurs once.
C16_FreeListWellFormed ==
    /\ \A p \in 1..Len(free_list) :
           /\ free_list[p] \in issued
           /\ ~is_alive(free_list[p])
           /\ ~Retired(free_list[p])
    /\ \A p, q \in 1..Len(free_list) : p # q => free_list[p] # free_list[q]

RECURSIVE SumRefcount(_, _)
SumRefcount(blks, n) ==
    IF n = 0 THEN 0 ELSE SumRefcount(blks, n - 1) + blks[n].refcount

\* C17: the sum of the per-block live-counts equals size().
C17_RefcountSumIsSize == SumRefcount(blocks, Len(blocks)) = size

\* C19: each block's refcount is the number of alive indices located in that
\* block, so it never goes below zero, and a block is released only by the
\* erase of its last live object.
C19_Inv ==
    \A b \in 1..Len(blocks) :
        /\ blocks[b].refcount >= 0
        /\ blocks[b].refcount = Cardinality(AliveSet \cap BlockRange(b))
C19_Step ==
    \A b \in 1..Len(blocks) :
        (blocks[b].ptr # 0 /\ blocks'[b].ptr = 0)
            => /\ last'.op = "erase"
               /\ AliveSet \cap BlockRange(b) = {last'.idx}
               /\ \A i \in BlockRange(b) : i \notin AliveSet'
C19_RefcountIsLiveCount == [][C19_Inv /\ C19_Inv' /\ C19_Step]_vars

\* an erase has released one block while another holds several live objects
C19_Witness ==
    /\ EraseDone
    /\ blocks[BlockOf(last.idx)].ptr = 0
    /\ \E b \in 1..Len(blocks) : blocks[b].refcount >= 2

RECURSIVE SumCapacity(_, _)
SumCapacity(blks, n) ==
    IF n = 0 THEN 0 ELSE SumCapacity(blks, n - 1) + blks[n].capacity

\* C20: count is the number of indices ever issued (the length of
\* object_ptrs) and is at most total_capacity, which is the sum of the
\* capacities of all entries of blocks; get_block_and_offset finds a block
\* for every index push_back and erase pass to it, and the internal index
\* error is never raised.
C20_CountWithinCapacity ==
    /\ count = Len(object_ptrs)
    /\ count <= total_capacity
    /\ total_capacity = SumCapacity(blocks, Len(blocks))
    /\ \A i \in 0..(total_capacity - 1) : get_block_and_offset(blocks, i).found
    /\ \A p \in 1..Len(free_list) : free_list[p] < count
    /\ last.res # "internal_error"

\* the pool is full after at least one growth and holds a reusable index
C20_Witness ==
    /\ count = total_capacity
    /\ Len(blocks) >= 2
    /\ free_list # <<>>

\* C14: round trip.  For every live index i, a lookup of i yields the value
\* given to the most recent insert that produced or reused i, never an
\* earlier occupant's value or another index's.
C14_RoundTrip ==
    /\ ~destroyed =>
           \A i \in AliveSet :
               /\ i \in DOMAIN given
               /\ ReadOutcomes(memory, object_ptrs[i + 1]) = {given[i]}
    /\ (last.op = "lookup" /\ last.res = "ok") => last.val = given[last.idx]

\* C18: over any run that ends with the destruction of the pool, every
\* allocated block has its memory released exactly once (at retirement or at
\* destruction) and every constructed object is destructed exactly once (by
\* its erase or by the destructor).
C18_ReleasedAndDestructedOnce ==
    /\ Len(freed) = Len(blocks)
    /\ \A b \in 1..Len(blocks) :
           /\ freed[b] <= 1
           /\ ~destroyed => (freed[b] = 1 <=> blocks[b].ptr = 0)
    /\ misdestroyed = {}
    /\ destroyed =>
           /\ \A b \in 1..Len(blocks) : freed[b] = 1
           /\ constructed = {}

\* the pool was destroyed with live objects left, one block retired earlier
\* and another released by the destructor
C18_Witness ==
    /\ destroyed
    /\ last.op = "destroy" /\ last.idx >= 1
    /\ \E b \in 1..Len(blocks) : blocks[b].ptr = 0
    /\ \E b \in 1..Len(blocks) : blocks[b].ptr # 0 /\ blocks[b].refcount >= 1

====
